---- MODULE Spec2Model ----
(***************************************************************************)
(* Continuous voice-activity-triggered conversation pipeline.              *)
(*                                                                         *)
(* AudioRecorder._continuous_recording_worker (the utterance segmenter)    *)
(* runs in one capture thread; the conversation object's handler           *)
(* (_process_audio_file, _process_audio_file_fast,                         *)
(* _process_audio_file_optimized) is the recorder's callback and therefore *)
(* runs in that same thread.  A main thread assigns the callbacks, starts  *)
(* and stops the conversation; the optimized class builds its engines in   *)
(* a background thread the constructor starts; the fast and optimized      *)
(* classes own a ThreadPoolExecutor (PoolSpec) and keep statistics         *)
(* (StatsSpec).                                                            *)
(*                                                                         *)
(* Abstractions:                                                           *)
(*  - a chunk of PCM data is a short tuple of signed 16 bit samples;       *)
(*  - durations are in tenths of a second, so int(d * rate / chunk)        *)
(*    is (d_ds * rate) \div (chunk * 10);                                  *)
(*  - a text is a tuple of characters, so str.strip() is computed;         *)
(*  - int(time.time()) at detection is the position in the input stream    *)
(*    of the chunk that triggered the detection (a clock read that is      *)
(*    different for every capture cycle).                                  *)
(***************************************************************************)
EXTENDS Integers, Sequences, FiniteSets, TLC

(* ---- bounds of the model ---- *)
MaxStream == 8
MaxFaults == 1
MaxSubmits == 1
MaxTurns == 3
\* calls of speak_response_fast / _optimized on one executor
MaxTasks == 2
\* sleeps of 0.1 s that fit in the timeout of _wait_for_initialization
WaitPolls == 2

(* ---- program constants ---- *)
PcmFullScale == 32768
MinDurationDs == 5
PoolWorkers == 3

VARIABLES
    variant,               \* which conversation class owns the recorder
    cfg,                   \* arguments of start_continuous_recording + recorder ctor
    main_pc,               \* the thread that calls start_/stop_conversation
    is_running,            \* <Conversation>.is_running
    is_initialized,        \* OptimizedVoiceConversation.is_initialized
    init_pc,               \* OptimizedVoiceConversation.initialization_thread
    is_recording,          \* AudioRecorder.is_recording
    rec_pc,                \* position of the capture thread
    frames,                \* local 'frames' of the worker: positions in stream
    silence_count,         \* local 'silence_count'
    timestamp,             \* local 'timestamp' (names output_path)
    end_reason,            \* why the for loop of the current cycle ended
    stream,                \* every chunk the device has delivered so far
    faults,                \* number of failed device reads so far
    files,                 \* recordings present in output_dir
    audio_file_path,       \* argument of the running handler
    user_text,             \* local 'user_text' of the handler
    ai_response,           \* local 'ai_response' of the handler
    conversation_history,  \* AIChat.conversation_history
    performance_stats,     \* performance_stats of the fast/optimized classes
    pool,                  \* tasks submitted to self.executor, not yet run
    events,                \* what the current (or last) turn did, in order
    failed,                \* [stage, err] of the engine call that raised in this turn
    reported,              \* the error handed to on_error in this turn
    outcome,               \* how the current (or last) turn ended
    cycles,                \* number of Idle -> Capturing transitions
    discarded,             \* number of cycles whose buffer was skipped
    emitted,               \* recordings written: [path, frames, end]
    callbacks,             \* paths handed to the callback, in order
    calls,                 \* number of engine calls made, per engine
    hist_before,           \* conversation_history when the turn began
    stats_before,          \* performance_stats when the turn began
    ok_turns,              \* <<user text, reply>> of every chat() that returned
    prev_turn,             \* [outcome, stage that failed] of the turn before
    reply_order,           \* audio_file_path of every ai_chat.chat call, in order
    on_error,              \* <Conversation>.on_error
    polls,                 \* sleeps of the running _wait_for_initialization
    wait_result,           \* what _wait_for_initialization returned
    init_polls,            \* value of polls when is_initialized became True
    surfaced,              \* errors outside a turn handed to on_error or raised
    workers,               \* threads of self.executor: "idle" or [text, stage]
    submits,               \* number of speak_response_* calls made
    executor_shutdown,     \* self.executor has been shut down
    stats_pc,              \* position inside the statistics update
    turn_time,             \* local 'response_time' of the handler
    latency_log,           \* response_time of every turn that updated the stats
    snapshot,              \* last value get_performance_stats() returned
    face_is_running,       \* FaceVoiceConversation.is_running
    face_pc                \* position of FaceVoiceConversation.face_thread

vars == << variant, cfg, main_pc, is_running, is_initialized, init_pc,
           is_recording, rec_pc, frames, silence_count, timestamp, end_reason,
           stream, faults, files, audio_file_path, user_text, ai_response,
           conversation_history, performance_stats, pool, events, failed,
           reported, outcome, cycles, discarded, emitted, callbacks, calls, hist_before,
           stats_before, ok_turns, prev_turn, reply_order, on_error, polls,
           wait_result, init_polls, surfaced, workers, submits,
           executor_shutdown, stats_pc,
           turn_time, latency_log, snapshot, face_is_running, face_pc >>

recorder_vars == << is_recording, rec_pc, frames, silence_count, timestamp,
                    end_reason, stream, faults, cycles, discarded, emitted,
                    callbacks >>

turn_vars == << files, audio_file_path, user_text, ai_response,
                conversation_history, performance_stats, pool, events, failed,
                reported, outcome, calls, hist_before, stats_before, ok_turns,
                prev_turn, reply_order >>

life_vars == << on_error, polls, wait_result, init_polls, surfaced >>

pool_vars == << workers, submits, executor_shutdown >>

stats_vars == << stats_pc, turn_time, latency_log, snapshot >>

face_vars == << face_is_running, face_pc >>

main_vars == << main_pc, is_running, is_initialized, init_pc, life_vars,
                pool_vars, stats_vars, face_vars >>

(* ---- inputs ---- *)
Variants == {"baseline", "hybrid", "fast", "optimized"}
Pooled == {"fast", "optimized"}

\* silence_threshold is the fraction num/den of full scale: 125/4096 is an
\* amplitude of 1000.  Durations are in tenths of a second.
ScenarioCfg ==
    [sample_rate |-> 3072, chunk_size |-> 1024,
     silence_threshold |-> [num |-> 125, den |-> 4096],
     silence_duration |-> 10, max_duration |-> 20]
ShortSilenceCfg ==
    [sample_rate |-> 6144, chunk_size |-> 1024,
     silence_threshold |-> [num |-> 125, den |-> 4096],
     silence_duration |-> 3, max_duration |-> 10]
Configs == {ScenarioCfg, ShortSilenceCfg}

Quiet == <<0, 0>>
Loud == <<200, -1500>>
Chunks == {Quiet, Loud}

SystemPrompt == <<"s">>
Texts == {<<>>, <<" ">>, <<"a">>}
RawReplies == {<<"b">>, <<" ">>}
Latencies == {1, 2}
SpokenTexts == {<<"b">>}
NoSnapshot == <<>>

(* ---- pure helpers ---- *)
Abs(x) == IF x < 0 THEN -x ELSE x

Max(S) == CHOOSE m \in S : \A x \in S : x <= m

\* max(abs(sample) for sample in samples)
PeakAmplitude(data) == Max({Abs(data[i]) : i \in 1..Len(data)})

\* _is_silence: max_amplitude / 32768.0 < threshold
IsSilence(data, threshold) ==
    PeakAmplitude(data) * threshold.den < threshold.num * PcmFullScale

\* int(duration * self.sample_rate / self.chunk_size), duration in tenths
FramesIn(duration, c) == (duration * c.sample_rate) \div (c.chunk_size * 10)

MaxSilenceFramesDoubled(c) == 2 * FramesIn(c.silence_duration, c)

MaxSilenceFrames(c) == FramesIn(c.silence_duration, c)

MaxFramesOffByOne(c) == FramesIn(c.max_duration, c) + 1

MaxFrames(c) == FramesIn(c.max_duration, c)

MinFrames(c) == FramesIn(MinDurationDs, c)

TooShortNever(buf, c) == FALSE

\* len(frames) < int(0.5 * self.sample_rate / self.chunk_size)
TooShort(buf, c) == Len(buf) < MinFrames(c)

IsSpace(ch) == ch = " "

RECURSIVE LStrip(_)
LStrip(t) ==
    IF t = <<>> THEN <<>>
    ELSE IF IsSpace(Head(t)) THEN LStrip(Tail(t)) ELSE t

RECURSIVE RStrip(_)
RStrip(t) ==
    IF t = <<>> THEN <<>>
    ELSE IF IsSpace(t[Len(t)]) THEN RStrip(SubSeq(t, 1, Len(t) - 1)) ELSE t

\* str.strip()
Strip(t) == RStrip(LStrip(t))

IsBlankNoStrip(t) == t = <<>>

\* not text.strip()
IsBlank(t) == Strip(t) = <<>>

NoError == [stage |-> "none", err |-> "none"]

UserMessage(msg) == [role |-> "user", content |-> msg]

AssistantMessage(msg) == [role |-> "assistant", content |-> msg]

ChatOnSuccessReplyOnly(h, msg, raw) == Append(h, AssistantMessage(Strip(raw)))

\* AIChat.chat, the path on which the API call returns raw content
ChatOnSuccess(h, msg, raw) ==
    Append(Append(h, UserMessage(msg)), AssistantMessage(Strip(raw)))

\* the value chat() returns
ChatReply(raw) == Strip(raw)

ChatOnErrorKeep(h, msg) == Append(h, UserMessage(msg))

\* AIChat.chat, the path on which the API call raises
ChatOnError(h, msg) ==
    LET h1 == Append(h, UserMessage(msg))
    IN  IF h1 # <<>> /\ h1[Len(h1)].role = "user"
        THEN SubSeq(h1, 1, Len(h1) - 1)
        ELSE h1

\* self.performance_stats['total_requests'] += 1
CountRequest(st) == [st EXCEPT !.total_requests = @ + 1]

\* self.performance_stats['total_time'] += response_time
AddTime(st, response_time) == [st EXCEPT !.total_time = @ + response_time]

AverageFloored(st) ==
    [st EXCEPT !.avg_response_time =
                   [num |-> st.total_time \div st.total_requests, den |-> 1]]

\* self.performance_stats['avg_response_time'] = total_time / total_requests
\* (the quotient is kept as a fraction)
Average(st) ==
    [st EXCEPT !.avg_response_time =
                   [num |-> st.total_time, den |-> st.total_requests]]

\* the three statements that update performance_stats
UpdateStats(st, response_time) ==
    Average(AddTime(CountRequest(st), response_time))

(* ---- initial state: the conversation object has been constructed ---- *)
Init ==
    /\ variant \in Variants
    /\ cfg \in Configs
    /\ main_pc = "constructed"
    /\ is_running = FALSE
    /\ is_initialized = (variant # "optimized")
    /\ init_pc = IF variant = "optimized" THEN "running" ELSE "done"
    /\ is_recording = FALSE
    /\ rec_pc = "not_started"
    /\ frames = <<>>
    /\ silence_count = 0
    /\ timestamp = 0
    /\ end_reason = "none"
    /\ stream = <<>>
    /\ faults = 0
    /\ files = {}
    /\ audio_file_path = 0
    /\ user_text = <<>>
    /\ ai_response = <<>>
    /\ conversation_history = << [role |-> "system", content |-> SystemPrompt] >>
    /\ performance_stats =
         [total_requests |-> 0, total_time |-> 0,
          avg_response_time |-> [num |-> 0, den |-> 1]]
    /\ pool = <<>>
    /\ events = <<>>
    /\ failed = NoError
    /\ reported = "none"
    /\ outcome = "none"
    /\ cycles = 0
    /\ discarded = 0
    /\ emitted = <<>>
    /\ callbacks = <<>>
    /\ calls = [transcribe |-> 0, reply |-> 0, synthesize |-> 0, play |-> 0]
    /\ hist_before = conversation_history
    /\ stats_before = performance_stats
    /\ ok_turns = <<>>
    /\ prev_turn = [outcome |-> "none", stage |-> "none"]
    /\ reply_order = <<>>
    /\ on_error = "None"
    /\ polls = 0
    /\ wait_result = "none"
    /\ init_polls = IF variant = "optimized" THEN -1 ELSE 0
    /\ surfaced = {}
    /\ workers = [w \in 1..PoolWorkers |-> [text |-> <<>>, stage |-> "idle"]]
    /\ submits = 0
    /\ executor_shutdown = FALSE
    /\ stats_pc = 0
    /\ turn_time = 0
    /\ latency_log = <<>>
    /\ snapshot = NoSnapshot
    /\ face_is_running = FALSE
    /\ face_pc = "not_started"

(* ---- main thread ---- *)

\* the application, after the constructor has returned:
\* self.conversation.on_error = self._on_error (with the other callbacks)
AssignCallbacks ==
    /\ main_pc = "constructed"
    /\ on_error' = "_on_error"
    /\ main_pc' = "created"
    /\ UNCHANGED << face_vars, variant, cfg, is_running, is_initialized, init_pc, polls,
                    wait_result, init_polls, surfaced >>
    /\ UNCHANGED << pool_vars, stats_vars >>
    /\ UNCHANGED recorder_vars
    /\ UNCHANGED turn_vars

InitializedWhatever(flag, ok) == TRUE

\* self.is_initialized = True is the last but two statement of the try block;
\* the except clause leaves the flag as it is
InitializedAfter(flag, ok) == IF ok THEN TRUE ELSE flag

\* OptimizedVoiceConversation._initialize_modules (background thread started
\* by the constructor); its except clause: if self.on_error: self.on_error(e)
InitializeModules ==
    /\ init_pc = "running"
    /\ \E ok \in BOOLEAN :
         /\ is_initialized' = InitializedAfter(is_initialized, ok)
         /\ init_pc' = IF ok THEN "done" ELSE "failed"
         /\ init_polls' = IF ok THEN polls ELSE init_polls
         /\ surfaced' = IF ~ok /\ on_error # "None"
                        THEN surfaced \cup {"InitError"}
                        ELSE surfaced
    /\ UNCHANGED << face_vars, variant, cfg, main_pc, is_running, on_error, polls,
                    wait_result >>
    /\ UNCHANGED << pool_vars, stats_vars >>
    /\ UNCHANGED recorder_vars
    /\ UNCHANGED turn_vars

KeepWaitingNever(initialized, n) == FALSE

\* while not self.is_initialized and (time.time() - start_time) < timeout
KeepWaiting(initialized, n) == ~initialized /\ n < WaitPolls

\* _wait_for_initialization, entry: if self.is_initialized: return True
WaitForInitialization ==
    /\ main_pc = "created"
    /\ variant = "optimized"
    /\ wait_result = "none"
    /\ IF is_initialized
       THEN wait_result' = "ready" /\ main_pc' = "created"
       ELSE wait_result' = "none" /\ main_pc' = "waiting"
    /\ polls' = 0
    /\ UNCHANGED << face_vars, variant, cfg, is_running, is_initialized, init_pc,
                    on_error, init_polls, surfaced >>
    /\ UNCHANGED << pool_vars, stats_vars >>
    /\ UNCHANGED recorder_vars
    /\ UNCHANGED turn_vars

\* _wait_for_initialization, one evaluation of the while condition and,
\* when it holds, time.sleep(0.1)
WaitPoll ==
    /\ main_pc = "waiting"
    /\ IF KeepWaiting(is_initialized, polls)
       THEN polls' = polls + 1 /\ main_pc' = "waiting"
       ELSE polls' = polls /\ main_pc' = "wait_return"
    /\ UNCHANGED << face_vars, variant, cfg, is_running, is_initialized, init_pc,
                    on_error, wait_result, init_polls, surfaced >>
    /\ UNCHANGED << pool_vars, stats_vars >>
    /\ UNCHANGED recorder_vars
    /\ UNCHANGED turn_vars

\* _wait_for_initialization, after the loop: if self.is_initialized: return
\* True, else log and return False; the caller (start_conversation,
\* speak_response_optimized) logs and returns when it gets False
WaitReturn ==
    /\ main_pc = "wait_return"
    /\ wait_result' = IF is_initialized THEN "ready" ELSE "not_ready"
    /\ main_pc' = IF is_initialized THEN "created" ELSE "refused"
    /\ UNCHANGED << face_vars, variant, cfg, is_running, is_initialized, init_pc,
                    on_error, polls, init_polls, surfaced >>
    /\ UNCHANGED << pool_vars, stats_vars >>
    /\ UNCHANGED recorder_vars
    /\ UNCHANGED turn_vars

\* the readiness wait of the caller has returned True (only the optimized
\* class waits)
InitializationAwaited == variant # "optimized" \/ wait_result = "ready"

\* speak_response_fast / speak_response_optimized:
\* self.executor.submit(self.text_to_speech.speak_text, text)
SpeakResponse ==
    /\ main_pc = "created"
    /\ variant \in Pooled
    /\ InitializationAwaited
    /\ submits < MaxSubmits
    /\ \E text \in SpokenTexts : pool' = Append(pool, text)
    /\ submits' = submits + 1
    /\ UNCHANGED << face_vars, variant, cfg, main_pc, is_running, is_initialized,
                    init_pc, workers, executor_shutdown >>
    /\ UNCHANGED << life_vars, stats_vars >>
    /\ UNCHANGED recorder_vars
    /\ UNCHANGED << files, audio_file_path, user_text, ai_response,
                    conversation_history, performance_stats, events, failed,
                    reported, outcome, calls, hist_before, stats_before,
                    ok_turns, prev_turn, reply_order >>

\* start_conversation(auto_mode=True) -> start_continuous_recording
StartConversation ==
    /\ main_pc = "created"
    /\ ~is_running
    /\ InitializationAwaited
    /\ ~is_recording
    /\ is_running' = TRUE
    /\ is_recording' = TRUE
    /\ rec_pc' = "loop"
    /\ main_pc' = "running"
    /\ UNCHANGED << face_vars, variant, cfg, is_initialized, init_pc >>
    /\ UNCHANGED << life_vars, pool_vars, stats_vars >>
    /\ UNCHANGED << frames, silence_count, timestamp, end_reason, stream,
                    faults, cycles, discarded, emitted, callbacks >>
    /\ UNCHANGED turn_vars

\* stop_conversation -> stop_continuous_recording, up to the join
StopConversation ==
    /\ main_pc = "running"
    /\ is_running
    /\ is_running' = FALSE
    /\ is_recording' = FALSE
    /\ main_pc' = "joining"
    /\ UNCHANGED << face_vars, variant, cfg, is_initialized, init_pc >>
    /\ UNCHANGED << life_vars, pool_vars, stats_vars >>
    /\ UNCHANGED << rec_pc, frames, silence_count, timestamp, end_reason,
                    stream, faults, cycles, discarded, emitted, callbacks >>
    /\ UNCHANGED turn_vars

\* recording_thread.join() returns once the worker has ended; the fast and
\* optimized classes go on to self.executor.shutdown(wait=True)
JoinWorker ==
    /\ main_pc = "joining"
    /\ rec_pc \in {"exited", "crashed"}
    /\ main_pc' = IF variant \in Pooled THEN "shutdown" ELSE "stopped"
    /\ UNCHANGED << face_vars, variant, cfg, is_running, is_initialized, init_pc >>
    /\ UNCHANGED << life_vars, pool_vars, stats_vars >>
    /\ UNCHANGED recorder_vars
    /\ UNCHANGED turn_vars

Idle == [text |-> <<>>, stage |-> "idle"]

ShutdownReturnsNoWait(queue, threads) == TRUE

\* executor.shutdown(wait=True) returns when the queue has been drained and
\* every worker thread has ended its task
ShutdownReturns(queue, threads) ==
    /\ queue = <<>>
    /\ \A w \in DOMAIN threads : threads[w] = Idle

\* self.executor.shutdown(wait=True), the last statement of stop_conversation
ShutdownExecutor ==
    /\ main_pc = "shutdown"
    /\ ShutdownReturns(pool, workers)
    /\ executor_shutdown' = TRUE
    /\ main_pc' = "stopped"
    /\ UNCHANGED << face_vars, variant, cfg, is_running, is_initialized, init_pc,
                    workers, submits >>
    /\ UNCHANGED << life_vars, stats_vars >>
    /\ UNCHANGED recorder_vars
    /\ UNCHANGED turn_vars

(* ---- worker threads of self.executor ---- *)

IdleWorkers == {w \in 1..PoolWorkers : workers[w] = Idle}

\* an idle worker thread takes the oldest task of the queue
PoolStart ==
    /\ pool # <<>>
    /\ IdleWorkers # {}
    /\ LET w == CHOOSE x \in IdleWorkers : \A y \in IdleWorkers : x <= y
       IN  workers' = [workers EXCEPT
                           ![w] = [text |-> Head(pool), stage |-> "synthesize"]]
    /\ pool' = Tail(pool)
    /\ UNCHANGED << face_vars, variant, cfg, main_pc, is_running, is_initialized,
                    init_pc, submits, executor_shutdown >>
    /\ UNCHANGED << life_vars, stats_vars >>
    /\ UNCHANGED recorder_vars
    /\ UNCHANGED << files, audio_file_path, user_text, ai_response,
                    conversation_history, performance_stats, events, failed,
                    reported, outcome, calls, hist_before, stats_before,
                    ok_turns, prev_turn, reply_order >>

\* the task, TextToSpeech.speak_text up to the end of synthesis: a blank text
\* returns at once, an error of the synthesis call is re-raised into the
\* future, which nobody reads
PoolSynthesize ==
    /\ \E w \in 1..PoolWorkers :
         /\ workers[w].stage = "synthesize"
         /\ \E err \in {"none", "SynthesisError"} :
              workers' = [workers EXCEPT
                  ![w] = IF IsBlank(workers[w].text) \/ err # "none"
                         THEN Idle
                         ELSE [workers[w] EXCEPT !.stage = "play"]]
    /\ UNCHANGED << face_vars, variant, cfg, main_pc, is_running, is_initialized,
                    init_pc, submits, executor_shutdown >>
    /\ UNCHANGED << life_vars, stats_vars >>
    /\ UNCHANGED recorder_vars
    /\ UNCHANGED turn_vars

\* the task, TextToSpeech._play_audio: returns whether or not a player worked
PoolPlay ==
    /\ \E w \in 1..PoolWorkers :
         /\ workers[w].stage = "play"
         /\ workers' = [workers EXCEPT ![w] = Idle]
    /\ UNCHANGED << face_vars, variant, cfg, main_pc, is_running, is_initialized,
                    init_pc, submits, executor_shutdown >>
    /\ UNCHANGED << life_vars, stats_vars >>
    /\ UNCHANGED recorder_vars
    /\ UNCHANGED turn_vars

(* ---- capture thread: the segmenter ---- *)

DetectedInverted(data, threshold) == IsSilence(data, threshold)

\* _detect_sound, given the chunk that was read
Detected(data, threshold) == ~IsSilence(data, threshold)

\* while self.is_recording: if self._detect_sound(stream, silence_threshold)
DetectSound ==
    /\ rec_pc = "loop"
    /\ IF ~is_recording
       THEN /\ rec_pc' = "exited"
            /\ UNCHANGED << frames, silence_count, timestamp, end_reason,
                            stream, faults, cycles >>
       ELSE \/ /\ Len(stream) < MaxStream
               /\ \E data \in Chunks :
                    /\ stream' = Append(stream, data)
                    /\ IF Detected(data, cfg.silence_threshold)
                       THEN /\ rec_pc' = "record"
                            /\ timestamp' = Len(stream')
                            /\ frames' = <<>>
                            /\ silence_count' = 0
                            /\ end_reason' = "none"
                            /\ cycles' = cycles + 1
                       ELSE /\ rec_pc' = "loop"
                            /\ UNCHANGED << timestamp, frames, silence_count,
                                            end_reason, cycles >>
               /\ UNCHANGED faults
            \/ /\ faults < MaxFaults
               /\ faults' = faults + 1
               /\ rec_pc' = "loop"
               /\ UNCHANGED << frames, silence_count, timestamp, end_reason,
                               stream, cycles >>
    /\ UNCHANGED << is_recording, discarded, emitted, callbacks >>
    /\ UNCHANGED main_vars
    /\ UNCHANGED << variant, cfg >>
    /\ UNCHANGED turn_vars

SilenceCountNoReset(count, data, threshold) ==
    IF IsSilence(data, threshold) THEN count + 1 ELSE count

\* the silence counter after one chunk of the for loop
SilenceCount(count, data, threshold) ==
    IF IsSilence(data, threshold) THEN count + 1 ELSE 0

\* one iteration of: for frame_count in range(max_frames)
CaptureFrame ==
    /\ rec_pc = "record"
    /\ IF ~is_recording
       THEN /\ rec_pc' = "finish"
            /\ end_reason' = "stop"
            /\ UNCHANGED << frames, silence_count, stream, faults >>
       ELSE \/ /\ Len(stream) < MaxStream
               /\ \E data \in Chunks :
                    LET count == SilenceCount(silence_count, data,
                                              cfg.silence_threshold)
                        quiet == IsSilence(data, cfg.silence_threshold)
                    IN  /\ stream' = Append(stream, data)
                        /\ frames' = Append(frames, Len(stream'))
                        /\ silence_count' = count
                        /\ IF quiet /\ count >= MaxSilenceFrames(cfg)
                           THEN rec_pc' = "finish" /\ end_reason' = "silence"
                           ELSE IF Len(frames') >= MaxFrames(cfg)
                           THEN rec_pc' = "finish" /\ end_reason' = "cap"
                           ELSE rec_pc' = "record" /\ end_reason' = "none"
               /\ UNCHANGED faults
            \/ /\ faults < MaxFaults
               /\ faults' = faults + 1
               /\ rec_pc' = "crashed"
               /\ UNCHANGED << frames, silence_count, stream, end_reason >>
    /\ UNCHANGED << is_recording, timestamp, cycles, discarded, emitted,
                    callbacks >>
    /\ UNCHANGED main_vars
    /\ UNCHANGED << variant, cfg >>
    /\ UNCHANGED turn_vars

InvokeCallbackTwice(cbs, path) == Append(Append(cbs, path), path)

InvokeCallbackPrepend(cbs, path) == <<path>> \o cbs

\* if callback: callback(str(output_path))
InvokeCallback(cbs, path) == Append(cbs, path)

\* after the for loop: skip a short buffer, else write the WAV file and
\* enter the callback (the conversation's handler)
FinishCapture ==
    /\ rec_pc = "finish"
    /\ IF TooShort(frames, cfg)
       THEN /\ discarded' = discarded + 1
            /\ rec_pc' = "loop"
            /\ UNCHANGED << emitted, callbacks >>
            /\ UNCHANGED turn_vars
       ELSE /\ files' = files \cup {timestamp}
            /\ emitted' = Append(emitted, [path |-> timestamp,
                                           frames |-> frames,
                                           end |-> end_reason])
            /\ callbacks' = InvokeCallback(callbacks, timestamp)
            /\ audio_file_path' = timestamp
            /\ rec_pc' = "transcribe"
            /\ prev_turn' = [outcome |-> outcome, stage |-> failed.stage]
            /\ outcome' = "running"
            /\ events' = <<>>
            /\ failed' = NoError
            /\ reported' = "none"
            /\ user_text' = <<>>
            /\ ai_response' = <<>>
            /\ hist_before' = conversation_history
            /\ stats_before' = performance_stats
            /\ UNCHANGED << discarded, conversation_history,
                            performance_stats, pool, calls, ok_turns,
                            reply_order >>
    /\ UNCHANGED << is_recording, frames, silence_count, timestamp,
                    end_reason, stream, faults, cycles >>
    /\ UNCHANGED main_vars
    /\ UNCHANGED << variant, cfg >>

(* ---- capture thread: the handler the recorder calls back ---- *)

rec_rest == << is_recording, frames, silence_count, timestamp, end_reason,
               stream, faults, cycles, discarded, emitted, callbacks >>

\* except Exception as e: ... if self.on_error: self.on_error(e); the
\* handler returns and the worker goes on to time.sleep(0.1) and the loop
ReportError(stage, err) ==
    /\ failed' = [stage |-> stage, err |-> err]
    /\ reported' = err
    /\ events' = Append(events, "on_error")
    /\ outcome' = "error"
    /\ rec_pc' = "loop"

\* SpeechToText.transcribe_audio_file(audio_file_path, model, language,
\* prompt) takes no response_format; WhisperCppSTT takes only the path
AcceptsCallArguments(v) == v \notin Pooled

\* what the handler gets from transcribe_audio_file: WhisperCppSTT returns
\* text.strip(), SpeechToText returns transcript.text
Transcribed(v, text) == IF v = "hybrid" THEN Strip(text) ELSE text

\* user_text = transcribe...; if not user_text.strip(): return;
\* if self.on_user_speech: self.on_user_speech(user_text)
Transcribe ==
    /\ rec_pc = "transcribe"
    /\ IF ~AcceptsCallArguments(variant)
       THEN /\ ReportError("transcribe", "TypeError")
            /\ UNCHANGED << user_text, calls >>
       ELSE \E err \in {"none", "RecognitionError"}, text \in Texts :
              /\ calls' = [calls EXCEPT !.transcribe = @ + 1]
              /\ IF err # "none"
                 THEN /\ ReportError("transcribe", err)
                      /\ UNCHANGED user_text
                 ELSE /\ user_text' = Transcribed(variant, text)
                      /\ UNCHANGED << failed, reported >>
                      /\ IF IsBlank(user_text')
                         THEN /\ events' = Append(events, "transcribe")
                              /\ outcome' = "discarded"
                              /\ rec_pc' = "loop"
                         ELSE /\ events' = events \o <<"transcribe",
                                                       "on_user_speech">>
                              /\ outcome' = "running"
                              /\ rec_pc' = "reply"
    /\ UNCHANGED << files, audio_file_path, ai_response, conversation_history,
                    performance_stats, pool, hist_before, stats_before,
                    ok_turns, prev_turn, reply_order >>
    /\ UNCHANGED rec_rest
    /\ UNCHANGED main_vars
    /\ UNCHANGED << variant, cfg >>

RepliedCallbackFirst(ev) == ev \o <<"on_ai_response", "reply">>

\* what the handler has done once chat() has returned: the reply, then
\* if self.on_ai_response: self.on_ai_response(ai_response)
Replied(ev) == ev \o <<"reply", "on_ai_response">>

\* ai_response = self.ai_chat.chat(user_text);
\* if self.on_ai_response: self.on_ai_response(ai_response)
Reply ==
    /\ rec_pc = "reply"
    /\ calls' = [calls EXCEPT !.reply = @ + 1]
    /\ reply_order' = Append(reply_order, audio_file_path)
    /\ \E err \in {"none", "GenerationError"}, raw \in RawReplies :
         IF err # "none"
         THEN /\ conversation_history' =
                    ChatOnError(conversation_history, user_text)
              /\ ReportError("reply", err)
              /\ UNCHANGED << ai_response, ok_turns >>
         ELSE /\ conversation_history' =
                    ChatOnSuccess(conversation_history, user_text, raw)
              /\ ai_response' = ChatReply(raw)
              /\ ok_turns' = Append(ok_turns, <<user_text, ai_response'>>)
              /\ events' = Replied(events)
              /\ rec_pc' = "speak"
              /\ UNCHANGED << failed, reported, outcome >>
    /\ UNCHANGED << files, audio_file_path, user_text, performance_stats,
                    pool, hist_before, stats_before, prev_turn >>
    /\ UNCHANGED rec_rest
    /\ UNCHANGED main_vars
    /\ UNCHANGED << variant, cfg >>

\* Path(audio_file_path).unlink() inside its own try/except
Unlink(fs, path) == fs \ {path}

\* baseline, hybrid: self.text_to_speech.speak_text(ai_response), up to the
\* end of synthesis.  fast, optimized: self.executor.submit(
\* synthesize_and_play), unlink, statistics update, return.
Speak ==
    /\ rec_pc = "speak"
    /\ IF variant \in Pooled
       THEN IF executor_shutdown
            THEN \* submit raises RuntimeError, which the handler reports
                 /\ ReportError("submit", "RuntimeError")
                 /\ UNCHANGED << pool, files, performance_stats, calls >>
            ELSE /\ pool' = Append(pool, ai_response)
                 /\ files' = Unlink(files, audio_file_path)
                 /\ \E response_time \in Latencies :
                      performance_stats' =
                          UpdateStats(performance_stats, response_time)
                 /\ events' = events \o <<"submit", "unlink", "stats">>
                 /\ outcome' = "done"
                 /\ rec_pc' = "loop"
                 /\ UNCHANGED << failed, reported, calls >>
       ELSE /\ UNCHANGED << pool, performance_stats >>
            /\ IF IsBlank(ai_response)
               THEN \* speak_text returns "" at once; the handler unlinks
                    /\ files' = Unlink(files, audio_file_path)
                    /\ events' = Append(events, "unlink")
                    /\ outcome' = "done"
                    /\ rec_pc' = "loop"
                    /\ UNCHANGED << failed, reported, calls >>
               ELSE /\ calls' = [calls EXCEPT !.synthesize = @ + 1]
                    /\ \E err \in {"none", "SynthesisError"} :
                         IF err # "none"
                         THEN /\ ReportError("synthesize", err)
                              /\ UNCHANGED files
                         ELSE /\ events' = Append(events, "synthesize")
                              /\ rec_pc' = "play"
                              /\ UNCHANGED << files, failed, reported,
                                              outcome >>
    /\ UNCHANGED << audio_file_path, user_text, ai_response,
                    conversation_history, hist_before, stats_before,
                    ok_turns, prev_turn, reply_order >>
    /\ UNCHANGED rec_rest
    /\ UNCHANGED main_vars
    /\ UNCHANGED << variant, cfg >>

\* the players _play_audio tries in turn; "none": every one of them failed
Players == {"mpg123", "pygame", "system", "none"}

\* TextToSpeech._play_audio (its except clauses log and fall back, none
\* re-raises), then the handler's unlink and return
Play ==
    /\ rec_pc = "play"
    /\ calls' = [calls EXCEPT !.play = @ + 1]
    /\ \E player \in Players :
         /\ failed' = IF player = "none"
                      THEN [stage |-> "play", err |-> "PlaybackError"]
                      ELSE failed
         /\ events' = events \o <<"play", "unlink">>
    /\ files' = Unlink(files, audio_file_path)
    /\ outcome' = "done"
    /\ rec_pc' = "loop"
    /\ UNCHANGED << audio_file_path, user_text, ai_response,
                    conversation_history, performance_stats, pool, reported,
                    hist_before, stats_before, ok_turns, prev_turn,
                    reply_order >>
    /\ UNCHANGED rec_rest
    /\ UNCHANGED main_vars
    /\ UNCHANGED << variant, cfg >>

Next ==
    \/ AssignCallbacks
    \/ InitializeModules
    \/ WaitForInitialization
    \/ WaitPoll
    \/ WaitReturn
    \/ StartConversation
    \/ StopConversation
    \/ JoinWorker
    \/ ShutdownExecutor
    \/ DetectSound
    \/ CaptureFrame
    \/ FinishCapture
    \/ Transcribe
    \/ Reply
    \/ Speak
    \/ Play

Spec == Init /\ [][Next]_vars

(* ---- the fast and optimized classes with their executor in use: the ---- *)
(* ---- application also calls speak_response_fast / _optimized        ---- *)

PoolInit ==
    /\ Init
    /\ variant \in Pooled
    /\ cfg = ShortSilenceCfg

\* here every device read returns data
DetectSoundRead == DetectSound /\ faults' = faults

CaptureFrameRead == CaptureFrame /\ faults' = faults

\* the handler of these classes ends at its transcription call, so the
\* capture thread takes no step of the later stages
PoolCapture ==
    \/ DetectSoundRead
    \/ CaptureFrameRead
    \/ FinishCapture
    \/ Transcribe

PoolThreads ==
    \/ PoolStart
    \/ PoolSynthesize
    \/ PoolPlay

Stopping ==
    \/ JoinWorker
    \/ ShutdownExecutor

PoolNext ==
    \/ AssignCallbacks
    \/ InitializeModules
    \/ WaitForInitialization
    \/ WaitPoll
    \/ WaitReturn
    \/ SpeakResponse
    \/ StartConversation
    \/ StopConversation
    \/ Stopping
    \/ PoolCapture
    \/ PoolThreads

PoolSpec == PoolInit /\ [][PoolNext]_vars

\* every thread is scheduled when it can take a step: device reads and
\* engine calls return, a thread that has ended is joined
FairSpec ==
    /\ PoolSpec
    /\ WF_vars(PoolCapture)
    /\ WF_vars(PoolThreads)
    /\ WF_vars(Stopping)

(* ---- the same classes, started again after a stop ---- *)

\* start_conversation on an object whose stop_conversation has returned:
\* is_running is False again and the recorder starts a new worker; the
\* executor is the one the constructor made
RestartConversation ==
    /\ main_pc = "stopped"
    /\ ~is_running
    /\ ~is_recording
    /\ is_running' = TRUE
    /\ is_recording' = TRUE
    /\ rec_pc' = "loop"
    /\ main_pc' = "running"
    /\ UNCHANGED << face_vars, variant, cfg, is_initialized, init_pc >>
    /\ UNCHANGED << life_vars, pool_vars, stats_vars >>
    /\ UNCHANGED << frames, silence_count, timestamp, end_reason, stream,
                    faults, cycles, discarded, emitted, callbacks >>
    /\ UNCHANGED turn_vars

\* speak_response_fast / speak_response_optimized after the shutdown:
\* self.executor.submit raises RuntimeError; except Exception as e: ...
\* if self.on_error: self.on_error(e)
SpeakResponseAfterShutdown ==
    /\ main_pc \in {"running", "stopped"}
    /\ variant \in Pooled
    /\ executor_shutdown
    /\ submits < MaxSubmits
    /\ submits' = submits + 1
    /\ surfaced' = IF on_error # "None"
                   THEN surfaced \cup {"RuntimeError"}
                   ELSE surfaced
    /\ UNCHANGED << face_vars, variant, cfg, main_pc, is_running, is_initialized,
                    init_pc, workers, executor_shutdown, on_error, polls,
                    wait_result, init_polls >>
    /\ UNCHANGED stats_vars
    /\ UNCHANGED recorder_vars
    /\ UNCHANGED turn_vars

RestartNext ==
    \/ PoolNext
    \/ RestartConversation
    \/ SpeakResponseAfterShutdown

RestartSpec == PoolInit /\ [][RestartNext]_vars

(* ---- FaceVoiceConversation: the wrapper that runs a pygame display ---- *)
(* ---- thread beside a baseline VoiceConversation                    ---- *)

\* the wrapper holds a VoiceConversation of the baseline class
FaceInit ==
    /\ Init
    /\ variant = "baseline"
    /\ cfg = ScenarioCfg

\* FaceVoiceConversation.start_conversation: sets the wrapper's flag, starts
\* the display thread, then starts the wrapped conversation
FaceStartConversation ==
    /\ main_pc = "created"
    /\ ~face_is_running
    /\ face_is_running' = TRUE
    /\ face_pc' = "loop"
    /\ ~is_running
    /\ ~is_recording
    /\ is_running' = TRUE
    /\ is_recording' = TRUE
    /\ rec_pc' = "loop"
    /\ main_pc' = "running"
    /\ UNCHANGED << variant, cfg, is_initialized, init_pc >>
    /\ UNCHANGED << life_vars, pool_vars, stats_vars >>
    /\ UNCHANGED << frames, silence_count, timestamp, end_reason, stream,
                    faults, cycles, discarded, emitted, callbacks >>
    /\ UNCHANGED turn_vars

\* _face_display_loop: a pygame QUIT event or the ESC key clears the
\* wrapper's flag, and nothing else
FaceQuitEvent ==
    /\ face_pc = "loop"
    /\ face_is_running
    /\ face_is_running' = FALSE
    /\ UNCHANGED << face_pc, variant, cfg, main_pc, is_running, is_initialized,
                    init_pc >>
    /\ UNCHANGED << life_vars, pool_vars, stats_vars >>
    /\ UNCHANGED recorder_vars
    /\ UNCHANGED turn_vars

\* _face_display_loop: the while test fails, pygame.quit() and the thread ends
FaceLoopExit ==
    /\ face_pc = "loop"
    /\ ~face_is_running
    /\ face_pc' = "ended"
    /\ UNCHANGED << face_is_running, variant, cfg, main_pc, is_running,
                    is_initialized, init_pc >>
    /\ UNCHANGED << life_vars, pool_vars, stats_vars >>
    /\ UNCHANGED recorder_vars
    /\ UNCHANGED turn_vars

\* FaceVoiceConversation.stop_conversation: returns at once when the
\* wrapper's flag is clear; otherwise clears it and calls
\* voice_conversation.stop_conversation(), up to the recorder's join
FaceStopConversation ==
    /\ main_pc = "running"
    /\ IF ~face_is_running
       THEN /\ main_pc' = "stop_returned"
            /\ UNCHANGED << face_is_running, is_running, is_recording >>
       ELSE /\ face_is_running' = FALSE
            /\ is_running' = FALSE
            /\ is_recording' = FALSE
            /\ main_pc' = "joining"
    /\ UNCHANGED << face_pc, variant, cfg, is_initialized, init_pc >>
    /\ UNCHANGED << life_vars, pool_vars, stats_vars >>
    /\ UNCHANGED << rec_pc, frames, silence_count, timestamp, end_reason,
                    stream, faults, cycles, discarded, emitted, callbacks >>
    /\ UNCHANGED turn_vars

\* self.face_thread.join(), the last call of the wrapper's stop_conversation
FaceJoinDisplay ==
    /\ main_pc = "stopped"
    /\ face_pc = "ended"
    /\ main_pc' = "face_stopped"
    /\ UNCHANGED << face_vars, variant, cfg, is_running, is_initialized,
                    init_pc >>
    /\ UNCHANGED << life_vars, pool_vars, stats_vars >>
    /\ UNCHANGED recorder_vars
    /\ UNCHANGED turn_vars

FaceNext ==
    \/ AssignCallbacks
    \/ FaceStartConversation
    \/ FaceQuitEvent
    \/ FaceLoopExit
    \/ FaceStopConversation
    \/ JoinWorker
    \/ FaceJoinDisplay
    \/ DetectSound
    \/ CaptureFrame
    \/ FinishCapture
    \/ Transcribe
    \/ Reply
    \/ Speak
    \/ Play

FaceSpec == FaceInit /\ [][FaceNext]_vars

(* ---- the executor under several submissions: the application calls ---- *)
(* ---- speak_response_fast / _optimized while earlier tasks are still ---- *)
(* ---- queued or running                                              ---- *)

\* speak_response_fast / speak_response_optimized, called again:
\* self.executor.submit(self.text_to_speech.speak_text, text)
SpeakResponseAgain ==
    /\ main_pc \in {"created", "running"}
    /\ variant \in Pooled
    /\ InitializationAwaited
    /\ ~executor_shutdown
    /\ submits < MaxTasks
    /\ \E text \in SpokenTexts : pool' = Append(pool, text)
    /\ submits' = submits + 1
    /\ UNCHANGED << face_vars, variant, cfg, main_pc, is_running, is_initialized,
                    init_pc, workers, executor_shutdown >>
    /\ UNCHANGED << life_vars, stats_vars >>
    /\ UNCHANGED recorder_vars
    /\ UNCHANGED << files, audio_file_path, user_text, ai_response,
                    conversation_history, performance_stats, events, failed,
                    reported, outcome, calls, hist_before, stats_before,
                    ok_turns, prev_turn, reply_order >>

ExecutorNext ==
    \/ AssignCallbacks
    \/ InitializeModules
    \/ WaitForInitialization
    \/ WaitPoll
    \/ WaitReturn
    \/ StartConversation
    \/ SpeakResponseAgain
    \/ PoolThreads

ExecutorSpec == PoolInit /\ [][ExecutorNext]_vars

(* ---- the statistics block of the fast/optimized handler, statement by ---- *)
(* ---- statement, beside the thread that reports the statistics         ---- *)

\* a fast or optimized conversation that is running, no turn handled yet
StatsInit ==
    /\ variant \in Pooled
    /\ cfg \in Configs
    /\ main_pc = "running"
    /\ is_running = TRUE
    /\ is_initialized = TRUE
    /\ init_pc = "done"
    /\ is_recording = TRUE
    /\ rec_pc = "loop"
    /\ frames = <<>>
    /\ silence_count = 0
    /\ timestamp = 0
    /\ end_reason = "none"
    /\ stream = <<>>
    /\ faults = 0
    /\ files = {}
    /\ audio_file_path = 0
    /\ user_text = <<>>
    /\ ai_response = <<>>
    /\ conversation_history = << [role |-> "system", content |-> SystemPrompt] >>
    /\ performance_stats =
         [total_requests |-> 0, total_time |-> 0,
          avg_response_time |-> [num |-> 0, den |-> 1]]
    /\ pool = <<>>
    /\ events = <<>>
    /\ failed = NoError
    /\ reported = "none"
    /\ outcome = "none"
    /\ cycles = 0
    /\ discarded = 0
    /\ emitted = <<>>
    /\ callbacks = <<>>
    /\ calls = [transcribe |-> 0, reply |-> 0, synthesize |-> 0, play |-> 0]
    /\ hist_before = conversation_history
    /\ stats_before = performance_stats
    /\ ok_turns = <<>>
    /\ prev_turn = [outcome |-> "none", stage |-> "none"]
    /\ reply_order = <<>>
    /\ on_error = "_on_error"
    /\ polls = 0
    /\ wait_result = IF variant = "optimized" THEN "ready" ELSE "none"
    /\ init_polls = 0
    /\ surfaced = {}
    /\ workers = [w \in 1..PoolWorkers |-> Idle]
    /\ submits = 0
    /\ executor_shutdown = FALSE
    /\ stats_pc = 0
    /\ turn_time = 0
    /\ latency_log = <<>>
    /\ snapshot = NoSnapshot
    /\ face_is_running = FALSE
    /\ face_pc = "not_started"

outside_stats == << face_vars, variant, cfg, main_pc, is_running, is_initialized, init_pc,
                    life_vars, pool_vars, recorder_vars, files,
                    audio_file_path, user_text, ai_response,
                    conversation_history, pool, events, failed, reported,
                    outcome, calls, hist_before, stats_before, ok_turns,
                    prev_turn, reply_order >>

\* response_time = end_time - start_time;
\* self.performance_stats['total_requests'] += 1
StatsCount ==
    /\ stats_pc = 0
    /\ Len(latency_log) < MaxTurns
    /\ \E response_time \in Latencies : turn_time' = response_time
    /\ performance_stats' = CountRequest(performance_stats)
    /\ stats_pc' = 1
    /\ UNCHANGED << latency_log, snapshot >>
    /\ UNCHANGED outside_stats

\* self.performance_stats['total_time'] += response_time
StatsAddTime ==
    /\ stats_pc = 1
    /\ performance_stats' = AddTime(performance_stats, turn_time)
    /\ stats_pc' = 2
    /\ UNCHANGED << turn_time, latency_log, snapshot >>
    /\ UNCHANGED outside_stats

\* self.performance_stats['avg_response_time'] = total_time / total_requests
StatsAverage ==
    /\ stats_pc = 2
    /\ performance_stats' = Average(performance_stats)
    /\ latency_log' = Append(latency_log, turn_time)
    /\ stats_pc' = 0
    /\ UNCHANGED << turn_time, snapshot >>
    /\ UNCHANGED outside_stats

\* get_performance_stats(): return self.performance_stats.copy(), called by
\* the application's reporting loop
GetPerformanceStats ==
    /\ snapshot' = << performance_stats >>
    /\ UNCHANGED << performance_stats, stats_pc, turn_time, latency_log >>
    /\ UNCHANGED outside_stats

StatsNext ==
    \/ StatsCount
    \/ StatsAddTime
    \/ StatsAverage
    \/ GetPerformanceStats

StatsSpec == StatsInit /\ [][StatsNext]_vars

(* ======================= claims ======================= *)

\* the claims' own reading of the configuration, in frames
FramesOfDuration(d, c) == (d * c.sample_rate) \div (c.chunk_size * 10)

\* the amplitude threshold of both configurations, in sample units
AmplitudeThreshold == 1000

ChunkBelow(data) == \A i \in 1..Len(data) : Abs(data[i]) < AmplitudeThreshold

HandlerPcs == {"transcribe", "reply", "speak", "play"}

\* C1 (as claimed): in every variant, when an engine call of a turn
\* (transcribe, reply, synthesize, play) raises, on_error is invoked with that
\* error and the turn ends there as an error.
C1_EngineFailureReported ==
    failed.stage # "none" =>
        /\ reported = failed.err
        /\ outcome = "error"
        /\ rec_pc \notin HandlerPcs

\* C2: the step in which ai_chat.chat raises hands the error to on_error,
\* returns the capture thread to its loop, and leaves the reply engine's
\* history, the statistics, the worker pool and the recording flag exactly as
\* they were when the turn began, so the next turn starts from the state it
\* would have had without the failed turn.
C2_ReplyFailureLeavesNoResidue ==
    [][ (rec_pc = "reply" /\ failed'.stage = "reply") =>
            /\ rec_pc' = "loop"
            /\ reported' = failed'.err
            /\ conversation_history' = hist_before
            /\ performance_stats' = stats_before
            /\ pool' = pool
            /\ is_recording' = is_recording
            /\ ok_turns' = ok_turns ]_vars

\* C2 witness: the turn after a turn whose reply failed ran every stage, and
\* the history holds only the system prompt and that turn's exchange.
C2_Witness ==
    /\ prev_turn.stage = "reply"
    /\ outcome = "done"
    /\ events = <<"transcribe", "on_user_speech", "reply", "on_ai_response",
                  "synthesize", "play", "unlink">>
    /\ Len(conversation_history) = 3
    /\ rec_pc = "loop"
    /\ is_recording

\* C3: while every chunk delivered so far is below the amplitude threshold,
\* the segmenter has never left Idle: no capture cycle began, no recording
\* was written and the callback was never invoked.
C3_QuietInputStaysIdle ==
    (\A i \in 1..Len(stream) : ChunkBelow(stream[i])) =>
        /\ cycles = 0
        /\ emitted = <<>>
        /\ callbacks = <<>>
        /\ files = {}
        /\ rec_pc \in {"not_started", "loop", "exited"}

C3_Witness ==
    /\ Len(stream) >= 3
    /\ \A i \in 1..Len(stream) : ChunkBelow(stream[i])
    /\ rec_pc = "loop"
    /\ is_recording

ScenarioChunks == <<Quiet, Quiet, Loud, Loud, Quiet, Quiet, Quiet>>

\* C4 (as claimed): the chunk that triggers detection is the first chunk of
\* the utterance; with threshold 1000, chunk amplitudes [0,0,1500,1500,0,0,0]
\* at 3 chunks per second and 1 s of trailing silence, exactly one utterance
\* is emitted and it holds chunks 3 to 7.
C4_ScenarioEmitsFrames3To7 ==
    ( /\ cfg = ScenarioCfg
      /\ stream = ScenarioChunks
      /\ faults = 0
      /\ main_pc = "running"
      /\ rec_pc \notin {"record", "finish"} ) =>
        /\ Len(emitted) = 1
        /\ emitted[1].frames = <<3, 4, 5, 6, 7>>

\* stream is a quiet chunks, then k loud chunks, then m quiet chunks
SpikeThenSilence(a, k, m) ==
    /\ m >= 0
    /\ \A i \in 1..Len(stream) :
         ChunkBelow(stream[i]) <=> (i <= a \/ i > a + k)

\* the input of C5 has been consumed by an undisturbed segmenter: a spike of
\* k >= 1 loud chunks, then at least the trailing silence, below the cap
SpikeConsumed(a, k) ==
    LET m == Len(stream) - a - k
    IN  /\ faults = 0
        /\ main_pc = "running"
        /\ rec_pc \notin {"record", "finish"}
        /\ k >= 1
        /\ m >= FramesOfDuration(cfg.silence_duration, cfg)
        /\ k + FramesOfDuration(cfg.silence_duration, cfg)
             < FramesOfDuration(cfg.max_duration, cfg)
        /\ SpikeThenSilence(a, k, m)

Within1(x, y) == x - y \in {-1, 0, 1}

\* C5 (as claimed): a spike of k loud chunks followed by at least the trailing
\* silence yields exactly one utterance, of k + silence chunks give or take one.
C5_SpikeEmitsExactlyOne ==
    \A a \in 0..Len(stream), k \in 1..Len(stream) :
        SpikeConsumed(a, k) =>
            /\ Len(emitted) = 1
            /\ Within1(Len(emitted[1].frames),
                       k + FramesOfDuration(cfg.silence_duration, cfg))

\* C5 (amended): the buffer of that cycle holds k + silence chunks give or
\* take one; it is emitted as exactly one utterance when it holds at least
\* 0.5 s of chunks, and otherwise it is discarded and nothing is emitted.
C5_SpikeEmitsOneUnlessShort ==
    \A a \in 0..Len(stream), k \in 1..Len(stream) :
        SpikeConsumed(a, k) =>
            /\ Within1(Len(frames),
                       k + FramesOfDuration(cfg.silence_duration, cfg))
            /\ IF Len(frames) >= FramesOfDuration(MinDurationDs, cfg)
               THEN /\ Len(emitted) = 1
                    /\ emitted[1].frames = frames
                    /\ callbacks = <<emitted[1].path>>
               ELSE /\ emitted = <<>>
                    /\ callbacks = <<>>
                    /\ discarded = 1

\* C5 witness: both branches of the amended claim are states of the model;
\* this one is the emitted utterance after a spike of two chunks.
C5_Witness ==
    /\ \E a \in 0..Len(stream) : SpikeConsumed(a, 2)
    /\ cfg = ScenarioCfg
    /\ Len(emitted) = 1
    /\ Len(emitted[1].frames) = 4

AllLoud(buf) == \A j \in 1..Len(buf) : ~ChunkBelow(stream[buf[j]])

C7_ShortBufferDiscarded ==
    LET min == FramesOfDuration(MinDurationDs, cfg)
    IN  /\ \A n \in 1..Len(emitted) : Len(emitted[n].frames) >= min
        /\ ( /\ cycles > 0
             /\ rec_pc \notin {"record", "finish"}
             /\ Len(frames) < min ) =>
               /\ timestamp \notin files
               /\ \A n \in 1..Len(callbacks) : callbacks[n] # timestamp
               /\ \A n \in 1..Len(emitted) : emitted[n].path # timestamp
        /\ rec_pc \notin {"record", "finish", "crashed"} =>
               cycles = Len(emitted) + discarded
        /\ calls.transcribe <= Len(emitted)
        /\ calls.reply <= Len(emitted)
        /\ calls.synthesize <= Len(emitted)

C7_Witness ==
    /\ discarded >= 1
    /\ rec_pc = "loop"
    /\ is_recording
    /\ Len(frames) >= 1
    /\ Len(frames) < FramesOfDuration(MinDurationDs, cfg)

\* C8: the callback is invoked at most once per capture cycle, never for the
\* cycle that is still capturing, and exactly once, in order, for every
\* utterance emitted.
C8_OneCallbackPerCycle ==
    /\ Len(callbacks) <= cycles
    /\ rec_pc \in {"record", "finish"} =>
           /\ Len(callbacks) <= cycles - 1
           /\ \A n \in 1..Len(callbacks) : callbacks[n] # timestamp
    /\ \A i, j \in 1..Len(callbacks) : callbacks[i] = callbacks[j] => i = j
    /\ Len(callbacks) = Len(emitted)
    /\ \A n \in 1..Len(emitted) : callbacks[n] = emitted[n].path

\* C8 witness: one utterance has been handed over and its turn is over; the
\* second cycle is still buffering and has not been handed over.
C8_Witness ==
    /\ Len(callbacks) = 1
    /\ cycles = 2
    /\ rec_pc = "record"
    /\ Len(frames) >= 1

OnlySpaces(t) == \A i \in 1..Len(t) : t[i] = " "

\* C9: a turn whose transcription returned empty or whitespace-only text ends
\* Discarded: no reply, no synthesis or submission, no on_error, and the
\* statistics and the reply engine's history are as they were before the turn.
C9_BlankTranscriptionDiscarded ==
    ( /\ events # <<>>
      /\ events[1] = "transcribe"
      /\ OnlySpaces(user_text) ) =>
        /\ outcome = "discarded"
        /\ events = <<"transcribe">>
        /\ failed = NoError
        /\ reported = "none"
        /\ performance_stats = stats_before
        /\ conversation_history = hist_before
        /\ rec_pc \notin HandlerPcs

C9_Witness ==
    /\ outcome = "discarded"
    /\ user_text = <<" ">>
    /\ events = <<"transcribe">>
    /\ rec_pc = "loop"

\* C10 (as claimed): once the handler has returned from a turn whose
\* transcription succeeded, the recording of that turn is no longer on disk,
\* whether the turn ended Done, Discarded or with an error in a later stage.
C10_RecordingDeletedAtReturn ==
    ( /\ outcome \in {"done", "discarded", "error"}
      /\ events # <<>>
      /\ events[1] = "transcribe" ) =>
        audio_file_path \notin files

\* C11 (as claimed): the capture thread never executes a transcription or a
\* reply-engine call: it is never positioned in the handler's transcribe or
\* reply stage, so while a turn is being transcribed or answered it is still
\* in its own loop reading frames.
C11_CaptureThreadOutsideEngineCalls ==
    rec_pc \notin {"transcribe", "reply"}

\* C12 (as claimed): in every variant the capture thread hands synthesis and
\* playback to another thread: it is never the thread inside playback, and it
\* reaches the speak stage only to submit the work to the worker pool.
C12_SpeechOffCaptureThread ==
    /\ rec_pc # "play"
    /\ rec_pc = "speak" => variant \in Pooled

WasAnswered(path) == \E i \in 1..Len(reply_order) : reply_order[i] = path

\* C13: at most one utterance is in the handler at any time, the one the
\* segmenter emitted last, and the reply engine is called for the utterances
\* in the order in which the segmenter handed them to the handler.
C13_OneTurnAtATimeInOrder ==
    /\ reply_order = SelectSeq(callbacks, WasAnswered)
    /\ rec_pc \in HandlerPcs =>
          /\ callbacks # <<>>
          /\ audio_file_path = callbacks[Len(callbacks)]
          /\ outcome = "running"
    /\ rec_pc \in {"speak", "play"} =>
          /\ reply_order # <<>>
          /\ reply_order[Len(reply_order)] = audio_file_path

C13_Witness ==
    /\ Len(reply_order) = 2
    /\ Len(callbacks) = 2
    /\ rec_pc = "speak"

\* C14: _wait_for_initialization returns True only when the engines are
\* ready, and it does so whenever they became ready before the timeout had
\* elapsed (also when that happened while it was polling); it returns False
\* only after the whole timeout, with the engines still not ready before the
\* deadline.
C14_WaitReturnsReadiness ==
    /\ wait_result = "ready" => is_initialized /\ init_polls # -1
    /\ wait_result = "not_ready" =>
          /\ polls >= WaitPolls
          /\ init_polls = -1 \/ init_polls >= WaitPolls
    /\ (wait_result # "none" /\ init_polls # -1 /\ init_polls < WaitPolls) =>
          wait_result = "ready"

C14_Witness ==
    /\ wait_result = "ready"
    /\ init_polls >= 1
    /\ init_polls < WaitPolls

\* C15 (as claimed): whenever the background initialization has raised, the
\* error has been delivered through on_error, whatever the interleaving of
\* the initialization thread with the caller that assigns on_error after the
\* constructor has returned.
C15_InitFailureDelivered ==
    init_pc = "failed" => "InitError" \in surfaced

\* C16 (as claimed): a start attempt that was given up because the engines
\* were not ready within the timeout has been reported through on_error.
C16_NotReadyReported ==
    main_pc = "refused" => "NotReadyError" \in surfaced

\* C19 (as claimed): once a device read has failed, in detection or while
\* capturing, the capture loop has ended and the failure has been propagated
\* to the caller as a capture error.
C19_ReadErrorEndsCapture ==
    faults > 0 =>
        /\ rec_pc = "crashed"
        /\ "CaptureError" \in surfaced

\* C20: once stop_conversation has been called on a running fast or optimized
\* conversation it returns, and when it has returned the capture thread has
\* ended, the executor's queue is empty and no worker thread is still inside a
\* synthesis or playback task: every task submitted before ran to its end.
C20_StopDrainsPoolAndReturns ==
    /\ []( (main_pc = "stopped" /\ variant \in Pooled) =>
              /\ rec_pc \in {"exited", "crashed"}
              /\ pool = <<>>
              /\ \A w \in 1..PoolWorkers : workers[w].stage = "idle" )
    /\ (main_pc = "joining" /\ variant \in Pooled) ~> (main_pc = "stopped")

C20_Witness ==
    /\ main_pc = "shutdown"
    /\ rec_pc = "exited"
    /\ submits >= 1
    /\ \E w \in 1..PoolWorkers : workers[w].stage = "play"

RECURSIVE SumOf(_)
SumOf(seq) == IF seq = <<>> THEN 0 ELSE Head(seq) + SumOf(Tail(seq))

\* C17: after N turns have gone through the statistics update with latencies
\* L1..LN, total_requests is N, total_time is L1 + ... + LN and, for N >= 1,
\* avg_response_time is exactly total_time / total_requests; no step makes
\* total_requests or total_time smaller.
C17_StatsCountSumAverage ==
    /\ []( stats_pc = 0 =>
              /\ performance_stats.total_requests = Len(latency_log)
              /\ performance_stats.total_time = SumOf(latency_log)
              /\ Len(latency_log) >= 1 =>
                    performance_stats.avg_response_time.num * Len(latency_log)
                      = SumOf(latency_log)
                          * performance_stats.avg_response_time.den )
    /\ [][ /\ performance_stats'.total_requests
                >= performance_stats.total_requests
           /\ performance_stats'.total_time >= performance_stats.total_time
         ]_vars

C17_Witness ==
    /\ stats_pc = 0
    /\ latency_log = <<1, 2>>
    /\ performance_stats.total_requests = 2

Occurrences(ev, name) == Cardinality({i \in 1..Len(ev) : ev[i] = name})

Before(ev, first, second) ==
    \A j \in 1..Len(ev) :
        ev[j] = second => \E i \in 1..(j - 1) : ev[i] = first

\* C21: within one turn on_user_speech is invoked after transcription has
\* returned and before the reply engine is called, on_ai_response after the
\* reply engine has returned and before synthesis and playback are started or
\* submitted, and each of the two callbacks at most once.
C21_CallbacksInOrderOncePerTurn ==
    /\ Occurrences(events, "on_user_speech") <= 1
    /\ Occurrences(events, "on_ai_response") <= 1
    /\ Before(events, "transcribe", "on_user_speech")
    /\ Before(events, "on_user_speech", "reply")
    /\ Before(events, "reply", "on_ai_response")
    /\ Before(events, "on_ai_response", "synthesize")
    /\ Before(events, "on_ai_response", "submit")
    /\ Before(events, "on_ai_response", "play")
    /\ rec_pc = "reply" => Occurrences(events, "on_user_speech") = 1
    /\ rec_pc \in {"speak", "play"} =>
          Occurrences(events, "on_ai_response") = 1

C21_Witness ==
    /\ rec_pc = "play"
    /\ events = <<"transcribe", "on_user_speech", "reply", "on_ai_response",
                  "synthesize">>

\* C22: in OptimizedVoiceConversation is_initialized is True exactly when the
\* background initialization thread has completed; once True it never goes
\* back to False, and every change of it is a step of that thread.
C22_ReadinessMonotonic ==
    /\ []( variant = "optimized" => (is_initialized <=> init_pc = "done") )
    /\ [][ is_initialized => is_initialized' ]_vars
    /\ [][ is_initialized' # is_initialized =>
              init_pc = "running" /\ init_pc' = "done" ]_vars

C22_Witness ==
    /\ variant = "optimized"
    /\ is_initialized
    /\ main_pc = "stopped"
    /\ callbacks # <<>>

\* the number of below-threshold chunks at the end of a buffer of positions
TrailingQuiet(buf) ==
    LET quiet(k) == \A i \in (Len(buf) - k + 1)..Len(buf) :
                        ChunkBelow(stream[buf[i]])
    IN  CHOOSE k \in 0..Len(buf) :
            /\ quiet(k)
            /\ k < Len(buf) => ~ChunkBelow(stream[buf[Len(buf) - k]])

Consecutive(buf, start) == \A i \in 1..Len(buf) : buf[i] = start + i

\* C23: while capturing, the buffer holds every chunk read since the
\* detection, loud or quiet, and the silence counter is the number of
\* below-threshold chunks at the end of the buffer; an utterance that ended
\* on silence ends with trailing_silence_duration of uninterrupted
\* below-threshold chunks.
C23_SilenceCountedContiguously ==
    /\ rec_pc \in {"record", "finish"} =>
          /\ Consecutive(frames, timestamp)
          /\ Len(stream) = timestamp + Len(frames)
          /\ silence_count = TrailingQuiet(frames)
    /\ \A n \in 1..Len(emitted) :
          /\ Consecutive(emitted[n].frames, emitted[n].path)
          /\ emitted[n].end = "silence" =>
                TrailingQuiet(emitted[n].frames)
                  >= FramesOfDuration(cfg.silence_duration, cfg)

C23_Witness ==
    \E n \in 1..Len(emitted) :
        LET buf == emitted[n].frames
        IN  /\ emitted[n].end = "silence"
            /\ \E i, j \in 1..Len(buf) :
                  /\ i < j
                  /\ ChunkBelow(stream[buf[i]])
                  /\ ~ChunkBelow(stream[buf[j]])

\* C24: a chat() call that raises leaves conversation_history as it was
\* before the call; one that returns makes it longer by exactly the user
\* message followed by the assistant reply it returned; so the history never
\* holds a user message that is not followed by its reply.
C24_ChatHistoryFrame ==
    /\ [][ calls'.reply # calls.reply =>
              IF failed'.stage = "reply"
              THEN conversation_history' = conversation_history
              ELSE conversation_history' =
                       conversation_history
                         \o << [role |-> "user", content |-> user_text],
                               [role |-> "assistant",
                                content |-> ai_response'] >> ]_vars
    /\ []( \A i \in 1..Len(conversation_history) :
              conversation_history[i].role = "user" =>
                  /\ i < Len(conversation_history)
                  /\ conversation_history[i + 1].role = "assistant" )

C24_Witness ==
    /\ Len(conversation_history) = 3
    /\ calls.reply = 2
    /\ failed.stage = "reply"

\* C25 (as claimed): the transcription call of the fast and optimized
\* handlers passes only arguments that transcribe_audio_file accepts, so no
\* turn of these classes is ended by the call itself being rejected.
C25_TranscriptionCallAccepted ==
    variant \in Pooled => failed # [stage |-> "transcribe", err |-> "TypeError"]

\* C26 (as claimed): is_recording is True only while a capture worker is
\* running; when the worker has ended, by an exception too, it is False.
C26_RecordingFlagFollowsWorker ==
    rec_pc \in {"not_started", "exited", "crashed"} => ~is_recording

\* C27 (as claimed): once stop has cleared is_recording, the worker writes no
\* further recording and calls the handler for no further utterance.
C27_NoCallbackAfterStop ==
    [][ (~is_recording /\ rec_pc # "not_started") =>
            /\ emitted' = emitted
            /\ callbacks' = callbacks ]_vars

\* C28 (as claimed): a fast or optimized conversation that is running, also
\* one started again after a stop, has an executor that accepts the
\* submission of synthesis and playback: no submit is refused.
C28_ExecutorUsableAfterRestart ==
    /\ (variant \in Pooled /\ is_running) => ~executor_shutdown
    /\ "RuntimeError" \notin surfaced
    /\ failed.err # "RuntimeError"

\* C29: once the display loop has cleared the wrapper's is_running, a
\* stop_conversation() that has returned leaves the wrapped conversation and
\* its recorder stopped: the wrapper is never not running, with its stop call
\* returned as a no-op, while the capture thread keeps running
C29_StopAfterQuitStopsRecorder ==
    main_pc = "stop_returned" =>
        /\ ~is_running
        /\ ~is_recording
        /\ rec_pc \in {"exited", "crashed"}

\* C30: in the fast and optimized classes at most one text is being
\* synthesized or played at any time, so the playback of a later text does
\* not start before the playback of the earlier one has finished
C30_OnePlaybackAtATime ==
    Cardinality({w \in 1..PoolWorkers : workers[w].stage # "idle"}) <= 1

====
